---- MODULE Spec2Model ----
(***************************************************************************)
(* StructuredOutputComponent.build_structured_output                       *)
(* (src/backend/base/langflow/components/helpers/structured_output.py).    *)
(*                                                                         *)
(* One run of the handler is modelled as a chain of steps, one per call    *)
(* the handler makes into code it does not own (schema builder, pydantic,  *)
(* the model client).  The inputs of the node are chosen in Init; the      *)
(* answers of the model client are chosen when the client is called.       *)
(***************************************************************************)
EXTENDS Integers, Sequences, FiniteSets, TLC

\* ---- bounds of the model ------------------------------------------------
MaxFields == 2      \* longest output_schema table
MaxObjects == 2     \* longest `objects` list a client returns

\* ---- small input domains ------------------------------------------------
FieldNames == {"title", "year"}
SupportedTypes == {"str", "int"}
DeclaredTypes == SupportedTypes \cup {"bogus"}
SchemaNames == {"", "Book"}
InputValues == {"Tell me about Dune"}

\* a row of the output_schema table (table_schema, lines 34-61)
FieldSpecification == [name : FieldNames, type : DeclaredTypes, multiple : BOOLEAN]

OutputSchemas == UNION {[1..n -> FieldSpecification] : n \in 0..MaxFields}

\* the llm handle: only the presence of the attribute is inspected
LanguageModels == [kind : {"llm"}, with_structured_output : BOOLEAN]

None == [kind |-> "None"]

VARIABLES
    llm, input_value, schema_name, output_schema, multiple,   \* inputs
    _output_model, output_model, llm_with_structured_output,  \* locals
    config_dict, output,
    pc,        \* position in the handler
    exc,       \* the exception that left the handler, if any
    result,    \* the value the handler returned, if any
    trace      \* calls made so far, in order: <<callee, "ok" | "raise">>

vars == <<llm, input_value, schema_name, output_schema, multiple,
          _output_model, output_model, llm_with_structured_output,
          config_dict, output, pc, exc, result, trace>>

inputs == <<llm, input_value, schema_name, output_schema, multiple>>

\* ---- exceptions and the returned value ----------------------------------
NoException == [kind |-> "None", type |-> "", msg |-> ""]
TypeError(msg) == [kind |-> "exception", type |-> "TypeError", msg |-> msg]
ValueError(msg) == [kind |-> "exception", type |-> "ValueError", msg |-> msg]
\* whatever a callee raised, propagated unchanged
Propagated(callee) == [kind |-> "exception", type |-> "Propagated", msg |-> callee]

Data(d) == [kind |-> "Data", data |-> d]

\* hasattr(self.llm, "with_structured_output")
hasattr_with_structured_output(l) == l.with_structured_output

\* ---- runtime types ------------------------------------------------------
\* A pydantic class is [kind, id, name, fields]; `id` is the identity of the
\* class object (isinstance compares classes, not their structure).
\* A field is [item, list, description, model]: `model` is the class of the
\* items when item = "model", and None otherwise.
ScalarField(t, many) ==
    [item |-> t, list |-> many, description |-> "", model |-> None]

\* the names declared by a schema table
FieldNamesOf(schema) == {schema[i].name : i \in DOMAIN schema}

\* the last row that declares name n (later keyword arguments replace
\* earlier ones in the fields mapping)
LastRow(schema, n) ==
    schema[CHOOSE i \in DOMAIN schema :
              /\ schema[i].name = n
              /\ \A j \in DOMAIN schema : schema[j].name = n => j <= i]

\* build_model_from_schema rejects a declared type it does not know
SchemaIsSupported(schema) ==
    \A i \in DOMAIN schema : schema[i].type \in SupportedTypes

\* build_model_from_schema(schema): a record type with one member per
\* declared name, typed per the declared type (a list of it when the row's
\* `multiple` is set)
build_model_from_schema(schema) ==
    [kind |-> "type", id |-> "_output_model", name |-> "OutputModel",
     fields |-> [n \in FieldNamesOf(schema) |->
                    ScalarField(LastRow(schema, n).type,
                                LastRow(schema, n).multiple)]]

\* create_model(name, objects=(list[inner], Field(description=...)))
create_model(name, inner, description) ==
    [kind |-> "type", id |-> "output_model", name |-> name,
     fields |-> [n \in {"objects"} |->
                    [item |-> "model", list |-> TRUE,
                     description |-> description, model |-> inner]]]

\* lines 83-89 with the wrapper always applied
SelectOutputModelAlwaysWraps(inner, many, name) ==
    create_model(name, inner, "A list of " \o name \o ".")

\* lines 83-89 with the wrapper never applied
SelectOutputModelNeverWraps(inner, many, name) == inner

\* lines 83-89: the target type handed to the client
SelectOutputModel(inner, many, name) ==
    IF many
    THEN create_model(name, inner, "A list of " \o name \o ".")
    ELSE inner

\* a class of the client's own that is a BaseModel but not the target type
AIMessage ==
    [kind |-> "type", id |-> "AIMessage", name |-> "AIMessage",
     fields |-> [n \in {"content"} |-> ScalarField("str", FALSE)]]

\* ---- values -------------------------------------------------------------
\* field values are written as their literals
ValuesOf(f) ==
    IF f.list
    THEN (IF f.item = "str" THEN {"[]", "['Dune']"} ELSE {"[]", "[1965]"})
    ELSE (IF f.item = "str" THEN {"Dune", "Foundation"} ELSE {"1965", "1951"})

AllLiterals ==
    {"[]", "['Dune']", "[1965]", "Dune", "Foundation", "1965", "1951"}

Instance(T, f) == [kind |-> "BaseModel", cls |-> T, fields |-> f]

\* validated instances of a record type whose members are all scalars/lists
RecordInstances(T) ==
    {Instance(T, f) : f \in {g \in [DOMAIN T.fields -> AllLiterals] :
                               \A n \in DOMAIN T.fields :
                                   g[n] \in ValuesOf(T.fields[n])}}

\* validated instances of the envelope: `objects` is a list of instances of
\* the inner type
EnvelopeInstances(T) ==
    {Instance(T, [n \in {"objects"} |-> s]) :
        s \in UNION {[1..k -> RecordInstances(T.fields["objects"].model)] :
                        k \in 0..MaxObjects}}

IsEnvelope(T) ==
    DOMAIN T.fields = {"objects"} /\ T.fields["objects"].item = "model"

InstancesOf(T) ==
    IF IsEnvelope(T) THEN EnvelopeInstances(T) ELSE RecordInstances(T)

\* isinstance(v, T): v is an instance of the class object T
IsInstance(v, T) == v.kind = "BaseModel" /\ v.cls.id = T.id

\* line 99: isinstance(output, BaseModel)
isinstance_BaseModel(v) == v.kind = "BaseModel"

\* BaseModel.model_dump(): a mapping from member name to value, nested
\* models dumped in place and in order
RECURSIVE model_dump(_)
model_dump(v) ==
    [n \in DOMAIN v.fields |->
        IF v.cls.fields[n].item = "model"
        THEN [i \in DOMAIN v.fields[n] |-> model_dump(v.fields[n][i])]
        ELSE v.fields[n]]

\* what get_chat_result can hand back for a bound runnable: a validated
\* instance of the bound schema, a BaseModel of another class, or a raw
\* unvalidated value
ForeignModels(runnable) ==
    {Instance(AIMessage, [n \in {"content"} |-> "Dune"])}
    \cup (IF IsEnvelope(runnable.schema)
          THEN RecordInstances(runnable.schema.fields["objects"].model)
          ELSE {})

RawValues(runnable) ==
    {[kind |-> "str", value |-> "Dune"]}
    \cup (IF IsEnvelope(runnable.schema)
          THEN {}
          ELSE {[kind |-> "dict", value |-> model_dump(i)] :
                   i \in RecordInstances(runnable.schema)})

ChatResults(runnable) ==
    InstancesOf(runnable.schema) \cup ForeignModels(runnable)
        \cup RawValues(runnable)

\* ---- the handler --------------------------------------------------------
Called(callee, outcome) == Append(trace, <<callee, outcome>>)

Init ==
    /\ llm \in LanguageModels
    /\ input_value \in InputValues
    /\ schema_name \in SchemaNames
    /\ output_schema \in OutputSchemas
    /\ multiple \in BOOLEAN
    /\ _output_model = None
    /\ output_model = None
    /\ llm_with_structured_output = None
    /\ config_dict = None
    /\ output = None
    /\ pc = "validate"
    /\ exc = NoException
    /\ result = None
    /\ trace = <<>>

Raise(e) ==
    /\ exc' = e
    /\ pc' = "raised"
    /\ result' = result

\* lines 75-80 with the two checks in the opposite order
ValidateSchemaFirst ==
    /\ pc = "validate"
    /\ IF output_schema = <<>>
       THEN Raise(ValueError("Output schema cannot be empty"))
       ELSE IF ~hasattr_with_structured_output(llm)
       THEN Raise(TypeError("Language model does not support structured output."))
       ELSE pc' = "build" /\ UNCHANGED <<exc, result>>
    /\ UNCHANGED <<inputs, _output_model, output_model,
                   llm_with_structured_output, config_dict, output, trace>>

\* lines 75-80 without the capability check
ValidateNoCapabilityCheck ==
    /\ pc = "validate"
    /\ IF output_schema = <<>>
       THEN Raise(ValueError("Output schema cannot be empty"))
       ELSE pc' = "build" /\ UNCHANGED <<exc, result>>
    /\ UNCHANGED <<inputs, _output_model, output_model,
                   llm_with_structured_output, config_dict, output, trace>>

\* lines 75-80 without the empty-schema check
ValidateNoSchemaCheck ==
    /\ pc = "validate"
    /\ IF ~hasattr_with_structured_output(llm)
       THEN Raise(TypeError("Language model does not support structured output."))
       ELSE pc' = "build" /\ UNCHANGED <<exc, result>>
    /\ UNCHANGED <<inputs, _output_model, output_model,
                   llm_with_structured_output, config_dict, output, trace>>

\* lines 75-80: the capability check, then the empty-schema check
Validate ==
    /\ pc = "validate"
    /\ IF ~hasattr_with_structured_output(llm)
       THEN Raise(TypeError("Language model does not support structured output."))
       ELSE IF output_schema = <<>>
       THEN Raise(ValueError("Output schema cannot be empty"))
       ELSE pc' = "build" /\ UNCHANGED <<exc, result>>
    /\ UNCHANGED <<inputs, _output_model, output_model,
                   llm_with_structured_output, config_dict, output, trace>>

\* line 82: _output_model = build_model_from_schema(self.output_schema)
BuildModel ==
    /\ pc = "build"
    /\ IF SchemaIsSupported(output_schema)
       THEN /\ _output_model' = build_model_from_schema(output_schema)
            /\ trace' = Called("build_model_from_schema", "ok")
            /\ pc' = "wrap"
            /\ UNCHANGED <<exc, result>>
       ELSE /\ trace' = Called("build_model_from_schema", "raise")
            /\ Raise(Propagated("build_model_from_schema"))
            /\ UNCHANGED _output_model
    /\ UNCHANGED <<inputs, output_model, llm_with_structured_output,
                   config_dict, output>>

\* lines 83-89: create the envelope when multiple, else keep the record type
Wrap ==
    /\ pc = "wrap"
    /\ output_model' = SelectOutputModel(_output_model, multiple, schema_name)
    /\ trace' = IF output_model'.id = _output_model.id
                THEN trace
                ELSE Called("create_model", "ok")
    /\ pc' = "bind"
    /\ UNCHANGED <<inputs, _output_model, llm_with_structured_output,
                   config_dict, output, exc, result>>

\* lines 90-92: self.llm.with_structured_output(schema=..., method=...)
Bind ==
    /\ pc = "bind"
    /\ \/ /\ llm_with_structured_output' =
                [kind |-> "runnable", schema |-> output_model,
                 method |-> "json_schema"]
          /\ trace' = Called("with_structured_output", "ok")
          /\ pc' = "invoke"
          /\ UNCHANGED <<exc, result>>
       \/ /\ trace' = Called("with_structured_output", "raise")
          /\ Raise(Propagated("with_structured_output"))
          /\ UNCHANGED llm_with_structured_output
    /\ UNCHANGED <<inputs, _output_model, output_model, config_dict, output>>

\* self.display_name, self.get_project_name(), self.get_langchain_callbacks()
display_name == "Structured Output"
get_project_name == "Langflow"
get_langchain_callbacks == <<>>

ConfigDict ==
    [kind |-> "dict", run_name |-> display_name,
     project_name |-> get_project_name, callbacks |-> get_langchain_callbacks]

\* lines 93-98 with a second call of get_chat_result after a failed one
InvokeWithRetry ==
    /\ pc = "invoke"
    /\ config_dict' = ConfigDict
    /\ \/ \E v \in ChatResults(llm_with_structured_output) :
            /\ output' = v
            /\ trace' = Called("get_chat_result", "ok")
            /\ pc' = "normalize"
            /\ UNCHANGED <<exc, result>>
       \/ /\ trace' = Append(Called("get_chat_result", "raise"),
                             <<"get_chat_result", "raise">>)
          /\ Raise(Propagated("get_chat_result"))
          /\ UNCHANGED output
    /\ UNCHANGED <<inputs, _output_model, output_model,
                   llm_with_structured_output>>

\* lines 93-98: build config_dict and call get_chat_result once
Invoke ==
    /\ pc = "invoke"
    /\ config_dict' = ConfigDict
    /\ \/ \E v \in ChatResults(llm_with_structured_output) :
            /\ output' = v
            /\ trace' = Called("get_chat_result", "ok")
            /\ pc' = "normalize"
            /\ UNCHANGED <<exc, result>>
       \/ /\ trace' = Called("get_chat_result", "raise")
          /\ Raise(Propagated("get_chat_result"))
          /\ UNCHANGED output
    /\ UNCHANGED <<inputs, _output_model, output_model,
                   llm_with_structured_output>>

\* lines 99-104 with the raw value handed on instead of the error
NormalizeWithFallback ==
    /\ pc = "normalize"
    /\ IF isinstance_BaseModel(output)
       THEN /\ result' = Data(model_dump(output))
            /\ trace' = Called("model_dump", "ok")
       ELSE /\ result' = Data(output.value)
            /\ trace' = trace
    /\ pc' = "done"
    /\ UNCHANGED <<inputs, _output_model, output_model,
                   llm_with_structured_output, config_dict, output, exc>>

\* lines 99-104: dump a BaseModel into Data, reject anything else
Normalize ==
    /\ pc = "normalize"
    /\ IF isinstance_BaseModel(output)
       THEN /\ result' = Data(model_dump(output))
            /\ trace' = Called("model_dump", "ok")
            /\ pc' = "done"
            /\ UNCHANGED exc
       ELSE /\ Raise(ValueError("Output is not a BaseModel."))
            /\ UNCHANGED trace
    /\ UNCHANGED <<inputs, _output_model, output_model,
                   llm_with_structured_output, config_dict, output>>

Next ==
    \/ Validate
    \/ BuildModel
    \/ Wrap
    \/ Bind
    \/ Invoke
    \/ Normalize

Spec == Init /\ [][Next]_vars

\* ---- vocabulary of the properties ---------------------------------------
\* positions in the trace of the calls of a callee
Calls(callee) == {i \in DOMAIN trace : trace[i][1] = callee}
CallsOk(callee) == {i \in DOMAIN trace : trace[i] = <<callee, "ok">>}

Terminal == pc \in {"done", "raised"}
Returned == result.kind = "Data"
NothingCalled == trace = <<>>

CapabilityError == TypeError("Language model does not support structured output.")
ValidationError == ValueError("Output schema cannot be empty")
ShapeError == ValueError("Output is not a BaseModel.")

\* the invocation handed back a value that is not a validated record at all
RawOutput == output.kind \notin {"None", "BaseModel"}

\* the invocation handed back a value that is not an instance of the type
\* bound to the client
NotOfTargetType == output.kind # "None" /\ ~IsInstance(output, output_model)

FailsAfterInvocation ==
    /\ ~Returned
    /\ Calls("get_chat_result") # {}
    /\ Terminal => pc = "raised" /\ exc = ShapeError

\* ---- C1 -----------------------------------------------------------------
\* C1: a client without with_structured_output makes the run fail with the
\* capability TypeError; nothing has been called at that point (no schema
\* synthesis, no binding, no invocation) and no Data is returned.
C1_CapabilityError ==
    ~llm.with_structured_output =>
        /\ NothingCalled
        /\ ~Returned
        /\ _output_model.kind = "None"
        /\ llm_with_structured_output.kind = "None"
        /\ pc \in {"validate", "raised"}
        /\ pc = "raised" => exc = CapabilityError

C1_Witness ==
    /\ ~llm.with_structured_output
    /\ output_schema # <<>>
    /\ pc = "raised"
    /\ exc.type = "TypeError"

\* ---- C2 -----------------------------------------------------------------
\* C2: a capable client with an empty output_schema makes the run fail with
\* the validation ValueError before build_model_from_schema, before the
\* envelope is created and before the model is bound or invoked; no Data is
\* returned.
C2_ValidationError ==
    (llm.with_structured_output /\ output_schema = <<>>) =>
        /\ NothingCalled
        /\ ~Returned
        /\ _output_model.kind = "None"
        /\ output_model.kind = "None"
        /\ llm_with_structured_output.kind = "None"
        /\ pc \in {"validate", "raised"}
        /\ pc = "raised" => exc = ValidationError

C2_Witness ==
    /\ llm.with_structured_output
    /\ output_schema = <<>>
    /\ pc = "raised"
    /\ exc.type = "ValueError"

ObjectsInOrder ==
    /\ DOMAIN result.data = {"objects"}
    /\ DOMAIN result.data["objects"] = DOMAIN output.fields["objects"]
    /\ \A i \in DOMAIN result.data["objects"] :
          /\ DOMAIN result.data["objects"][i] = FieldNamesOf(output_schema)
          /\ result.data["objects"][i] = output.fields["objects"][i].fields

C6_Original ==
    (schema_name = "" \/ output_schema = <<>>) =>
        (Calls("get_chat_result") = {} /\ ~Returned)

\* C6 amended: the field list in use is never empty: a run with an empty
\* output_schema never reaches the model invocation and never returns Data
\* (schema_name is not validated).
C6_NonEmptyFieldList ==
    (Calls("get_chat_result") # {} \/ Returned) => output_schema # <<>>

\* an empty schema_name does reach the invocation and a returned Data
C6_Witness ==
    /\ schema_name = ""
    /\ Calls("get_chat_result") # {}
    /\ Returned
    /\ Len(output_schema) > 0

\* ---- C7 -----------------------------------------------------------------
\* one of the failures of the run has happened
FailureOccurred ==
    \/ ~llm.with_structured_output
    \/ output_schema = <<>>
    \/ \E i \in DOMAIN trace : trace[i][2] = "raise"
    \/ RawOutput

\* C7: every failure (capability, validation, a failure raised by a callee
\* while building, binding or invoking, or the shape error) ends the run
\* with an exception; Data is never returned after one, and a returned Data
\* is the dump of the validated output, never a fallback or partial value.
C7_FailuresAreTerminal ==
    /\ FailureOccurred => ~Returned
    /\ (FailureOccurred /\ Terminal) => (pc = "raised" /\ exc.kind = "exception")
    /\ pc = "raised" => (~Returned /\ exc.kind = "exception")
    /\ Returned => /\ pc = "done"
                   /\ exc = NoException
                   /\ output.kind = "BaseModel"
                   /\ DOMAIN result.data = DOMAIN output.fields

C7_Witness ==
    /\ pc = "raised"
    /\ exc = Propagated("get_chat_result")
    /\ ~Returned

\* ---- C8 -----------------------------------------------------------------
\* C8: the type bound with with_structured_output depends on `multiple`
\* only: the record type of the schema builder itself when false (no wrapper
\* is created), an envelope named schema_name with the one field `objects`,
\* a list of the record type described "A list of {schema_name}.", when
\* true; the method is always "json_schema".
C8_TargetType ==
    llm_with_structured_output.kind = "runnable" =>
        /\ llm_with_structured_output.method = "json_schema"
        /\ llm_with_structured_output.schema.id = output_model.id
        /\ ~multiple =>
              /\ output_model.id = _output_model.id
              /\ DOMAIN output_model.fields = FieldNamesOf(output_schema)
              /\ Calls("create_model") = {}
        /\ multiple =>
              /\ output_model.id # _output_model.id
              /\ output_model.name = schema_name
              /\ DOMAIN output_model.fields = {"objects"}
              /\ output_model.fields["objects"].item = "model"
              /\ output_model.fields["objects"].list
              /\ output_model.fields["objects"].model.id = _output_model.id
              /\ output_model.fields["objects"].description
                    = "A list of " \o schema_name \o "."
              /\ Cardinality(Calls("create_model")) = 1

C8_Witness ==
    /\ llm_with_structured_output.kind = "runnable"
    /\ multiple
    /\ schema_name = "Book"
    /\ output_model.fields["objects"].description = "A list of Book."

\* ---- C9 -----------------------------------------------------------------
BindingSucceeded == CallsOk("with_structured_output") # {}

\* C9: the model is invoked at most once in a run: exactly once when both
\* checks pass and binding succeeds, never otherwise; there is no second
\* invocation after a failed one or after a shape error; the invocation
\* comes after schema synthesis and binding and before normalization.
C9_SingleInvocation ==
    /\ Cardinality(Calls("get_chat_result")) <= 1
    /\ (Terminal /\ BindingSucceeded) => Cardinality(Calls("get_chat_result")) = 1
    /\ ~BindingSucceeded => Calls("get_chat_result") = {}
    /\ BindingSucceeded =>
          (llm.with_structured_output /\ output_schema # <<>>)
    /\ \A i \in Calls("get_chat_result") :
          /\ \E j \in CallsOk("build_model_from_schema") :
                \E k \in CallsOk("with_structured_output") : j < k /\ k < i
          /\ \A m \in Calls("model_dump") : i < m
    /\ Calls("model_dump") # {} => Calls("get_chat_result") # {}

C9_Witness ==
    /\ pc = "raised"
    /\ exc = ShapeError
    /\ Cardinality(Calls("get_chat_result")) = 1

\* ---- C10 ----------------------------------------------------------------
\* C10: the capability check comes first: a client without the capability
\* and an empty schema together give the capability TypeError, never the
\* validation ValueError, which only capable clients get.
C10_CapabilityCheckFirst ==
    /\ (~llm.with_structured_output /\ output_schema = <<>> /\ Terminal) =>
          exc = CapabilityError
    /\ exc = ValidationError => llm.with_structured_output

C10_Witness ==
    /\ ~llm.with_structured_output
    /\ output_schema = <<>>
    /\ pc = "raised"
    /\ exc = CapabilityError

====
